---- MODULE Spec2Model ----
(***************************************************************************)
(* Model of clean/clean_data.py: remove_page_duplicates (collapse          *)
(* consecutive duplicate pages of a hyphen-delimited journey string) and   *)
(* group_by (fold the sessions of each user into one aggregated row).      *)
(*                                                                         *)
(* A Python str is a sequence of one-character strings; a journey cell is  *)
(* a tagged value, either kind "str" or kind "nan" (pandas' missing cell). *)
(* A table (DataFrame) is a sequence of rows, each row a record with the   *)
(* fields user_id, session_id, subscription_type, user_journey.            *)
(***************************************************************************)
EXTENDS Integers, Sequences, FiniteSets, TLC

VARIABLES df, sessions, count_from, pc, cleaned_df, user_id, err, subsets,
          final_df, raw_user_id, raw_final

vars == <<df, sessions, count_from, pc, cleaned_df, user_id, err, subsets,
          final_df, raw_user_id, raw_final>>

(***************************************************************************)
(* Bounds of the model.                                                    *)
(***************************************************************************)
\* longest journey string fed to the Deduplicator alone
MaxLen == 4
\* most rows of a table fed to the Deduplicator alone
MaxRowsD == 1
\* most rows of a table fed to group_by alone
MaxRows == 3
\* most rows of a table fed to the whole pipeline
MaxRowsP == 2

\* characters of journey strings: two page letters and the delimiter
Chars == {"A", "B", "-"}

(***************************************************************************)
(* Cell values.                                                            *)
(***************************************************************************)
MkStr(s) == [kind |-> "str", val |-> s]
NaN == [kind |-> "nan", val |-> <<>>]
\* isinstance(journey, str)
IsStr(v) == v.kind = "str"

(***************************************************************************)
(* str.split('-') and '-'.join(...)                                        *)
(***************************************************************************)
RECURSIVE split(_)
split(s) ==
    IF \A i \in 1..Len(s) : s[i] # "-"
    THEN <<s>>
    ELSE LET i == CHOOSE k \in 1..Len(s) :
                      s[k] = "-" /\ \A j \in 1..(k-1) : s[j] # "-"
         IN  <<SubSeq(s, 1, i-1)>> \o split(SubSeq(s, i+1, Len(s)))

\* faulty variant: the separator is left out
join_nosep(items) ==
    LET F[k \in 0..Len(items)] == IF k = 0 THEN <<>> ELSE F[k-1] \o items[k]
    IN  F[Len(items)]

RECURSIVE join(_)
join(items) ==
    IF Len(items) = 0 THEN <<>>
    ELSE IF Len(items) = 1 THEN items[1]
    ELSE items[1] \o <<"-">> \o join(Tail(items))

(***************************************************************************)
(* remove_page_duplicates                                                  *)
(***************************************************************************)
\* faulty variant: the page is compared with the first kept page, not the last
append_page_first(cleaned_pages, page) ==
    IF page # cleaned_pages[1]
    THEN Append(cleaned_pages, page)
    ELSE cleaned_pages

\* loop body: if page != cleaned_pages[-1]: cleaned_pages.append(page)
append_page(cleaned_pages, page) ==
    IF page # cleaned_pages[Len(cleaned_pages)]
    THEN Append(cleaned_pages, page)
    ELSE cleaned_pages

\* faulty variant: only the first adjacent duplicate is removed
RECURSIVE clean_first_dup(_)
clean_first_dup(pages) ==
    IF Len(pages) < 2 THEN pages
    ELSE IF pages[1] = pages[2] THEN Tail(pages)
    ELSE <<pages[1]>> \o clean_first_dup(Tail(pages))

\* cleaned_pages = [pages[0]]; for page in pages[1:]: ...
clean_pages(pages) ==
    LET F[k \in 1..Len(pages)] ==
            IF k = 1 THEN <<pages[1]>> ELSE append_page(F[k-1], pages[k])
    IN  F[Len(pages)]

remove_duplicates(journey) ==
    IF ~IsStr(journey) THEN journey
    ELSE LET pages == split(journey.val)
         IN  IF Len(pages) = 0 THEN journey
             ELSE MkStr(join(clean_pages(pages)))

\* df_clean = df.copy(); df_clean[target_column] = ....apply(remove_duplicates)
remove_page_duplicates(data) ==
    [i \in 1..Len(data) |->
        [data[i] EXCEPT !.user_journey = remove_duplicates(@)]]

(***************************************************************************)
(* group_by: parameter conversions                                         *)
(***************************************************************************)
Digits == <<"0", "1", "2", "3", "4", "5", "6", "7", "8", "9">>
IsDigit(c) == \E d \in 1..10 : Digits[d] = c
DigitVal(c) == (CHOOSE d \in 1..10 : Digits[d] = c) - 1

\* astype(str) of a non-negative integer cell
RECURSIVE ToStr(_)
ToStr(n) ==
    IF n < 10 THEN <<Digits[n + 1]>>
    ELSE ToStr(n \div 10) \o <<Digits[(n % 10) + 1]>>

\* value of a digit string
DecVal(ds) ==
    LET F[k \in 0..Len(ds)] ==
            IF k = 0 THEN 0 ELSE 10 * F[k-1] + DigitVal(ds[k])
    IN  F[Len(ds)]

\* int(sessions) of a str: an optional sign and one or more digits, otherwise
\* ValueError (ok = FALSE)
int(s) ==
    LET signed == Len(s) > 0 /\ s[1] \in {"-", "+"}
        ds == IF signed THEN Tail(s) ELSE s
    IN  IF Len(ds) > 0 /\ \A i \in 1..Len(ds) : IsDigit(ds[i])
        THEN [ok |-> TRUE,
              val |-> IF signed /\ s[1] = "-" THEN 0 - DecVal(ds) ELSE DecVal(ds)]
        ELSE [ok |-> FALSE, val |-> 0]

\* str.lower() on the letters that occur in the count_from inputs
LowerChar(c) ==
    CASE c = "F" -> "f" [] c = "I" -> "i" [] c = "R" -> "r" [] c = "S" -> "s"
      [] c = "T" -> "t" [] c = "L" -> "l" [] c = "A" -> "a" [] c = "M" -> "m"
      [] c = "D" -> "d" [] c = "E" -> "e" [] OTHER -> c
lower(s) == [i \in 1..Len(s) |-> LowerChar(s[i])]

All == <<"A", "l", "l">>
first == <<"f", "i", "r", "s", "t">>
last == <<"l", "a", "s", "t">>

(***************************************************************************)
(* group_by: sorting, grouping, windowing                                  *)
(***************************************************************************)
Min(a, b) == IF a < b THEN a ELSE b
Max(a, b) == IF a > b THEN a ELSE b

\* order of sort_values(by=[group_column, session_id])
RowLE(a, b) ==
    \/ a.user_id < b.user_id
    \/ a.user_id = b.user_id /\ a.session_id <= b.session_id

\* stable insertion: the row goes after every row that is not greater
insert(sorted, row) ==
    LET n == Cardinality({i \in 1..Len(sorted) : RowLE(sorted[i], row)})
    IN  SubSeq(sorted, 1, n) \o <<row>> \o SubSeq(sorted, n + 1, Len(sorted))

\* faulty variant: the table is left in input order
sort_values_none(data) == data

\* data.sort_values(by=[group_column, session_id]) (stable)
sort_values(data) ==
    LET F[k \in 0..Len(data)] ==
            IF k = 0 THEN <<>> ELSE insert(F[k-1], data[k])
    IN  F[Len(data)]

\* faulty variant: nothing is removed
unique_keep_all(values) == values

\* Series.unique(): distinct values in order of first occurrence
unique(values) ==
    LET F[k \in 0..Len(values)] ==
            IF k = 0 THEN <<>>
            ELSE IF \E j \in 1..(k-1) : values[j] = values[k]
                 THEN F[k-1]
                 ELSE Append(F[k-1], values[k])
    IN  F[Len(values)]

\* faulty variant: only the first group is iterated
group_names_first(data) ==
    IF Len(data) = 0 THEN <<>> ELSE <<data[1].user_id>>

\* data.groupby(group_column, sort=False): group names in order of appearance
group_names(data) ==
    LET F[k \in 0..Len(data)] ==
            IF k = 0 THEN <<>>
            ELSE IF \E j \in 1..(k-1) : data[j].user_id = data[k].user_id
                 THEN F[k-1]
                 ELSE Append(F[k-1], data[k].user_id)
    IN  F[Len(data)]

\* group_df of one group: its rows in table order
group_df(data, group_name) ==
    LET F[k \in 0..Len(data)] ==
            IF k = 0 THEN <<>>
            ELSE IF data[k].user_id = group_name
                 THEN Append(F[k-1], data[k])
                 ELSE F[k-1]
    IN  F[Len(data)]

\* DataFrame.head(n) = iloc[:n]
head(rows, n) ==
    IF n >= 0 THEN SubSeq(rows, 1, Min(n, Len(rows)))
    ELSE SubSeq(rows, 1, Max(Len(rows) + n, 0))

\* faulty variant: tail(0) keeps everything, as the slice iloc[-0:] would
tail_no_zero_case(rows, n) ==
    IF n > 0 THEN SubSeq(rows, Max(Len(rows) - n, 0) + 1, Len(rows))
    ELSE SubSeq(rows, Min(0 - n, Len(rows)) + 1, Len(rows))

\* DataFrame.tail(n) = iloc[0:0] when n = 0, iloc[-n:] otherwise
tail(rows, n) ==
    IF n = 0 THEN <<>>
    ELSE IF n > 0 THEN SubSeq(rows, Max(Len(rows) - n, 0) + 1, Len(rows))
    ELSE SubSeq(rows, Min(0 - n, Len(rows)) + 1, Len(rows))

\* "Select subset of sessions": the window of one group, or the ValueError
select_subset(rows, sess, cfrom) ==
    IF sess = All THEN [err |-> "none", rows |-> rows]
    ELSE LET session_count == int(sess)
         IN  IF ~session_count.ok
             THEN [err |-> "ValueError", rows |-> <<>>]
             ELSE IF lower(cfrom) = first
             THEN [err |-> "none", rows |-> head(rows, session_count.val)]
             ELSE IF lower(cfrom) = last
             THEN [err |-> "none", rows |-> tail(rows, session_count.val)]
             ELSE [err |-> "ValueError", rows |-> <<>>]

\* the aggregated record of one window; '-'.join raises TypeError on a cell
\* that is not a str
grouped_record(group_name, subset) ==
    IF \E i \in 1..Len(subset) : ~IsStr(subset[i].user_journey)
    THEN [err |-> "TypeError", row |-> <<>>]
    ELSE [err |-> "none",
          row |-> [user_id |-> group_name,
                   session_id |->
                       join([i \in 1..Len(subset) |-> ToStr(subset[i].session_id)]),
                   subscription_type |->
                       join(unique([i \in 1..Len(subset) |->
                                       subset[i].subscription_type])),
                   user_journey |->
                       MkStr(join([i \in 1..Len(subset) |->
                                      subset[i].user_journey.val]))]]

\* group_by(data, sessions=sess, count_from=cfrom): the table returned, the
\* windows of the loop, or the exception of the first iteration that raises
group_by(data, sess, cfrom) ==
    LET sorted == sort_values(data)
        names == group_names(sorted)
        sel == [g \in 1..Len(names) |->
                   select_subset(group_df(sorted, names[g]), sess, cfrom)]
        rec == [g \in 1..Len(names) |->
                   IF sel[g].err # "none" THEN [err |-> sel[g].err, row |-> <<>>]
                   ELSE grouped_record(names[g], sel[g].rows)]
        bad == {g \in 1..Len(names) : rec[g].err # "none"}
    IN  IF bad = {}
        THEN [err |-> "none",
              table |-> [g \in 1..Len(names) |-> rec[g].row],
              subsets |-> [g \in 1..Len(names) |-> sel[g].rows]]
        ELSE LET g0 == CHOOSE g \in bad : \A h \in bad : g <= h
             IN  [err |-> rec[g0].err, table |-> <<>>, subsets |-> <<>>]

(***************************************************************************)
(* Inputs of the Deduplicator specification.                               *)
(***************************************************************************)
StrsUpTo(n) == UNION {[1..k -> Chars] : k \in 0..n}
SeqsUpTo(S, n) == UNION {[1..k -> S] : k \in 0..n}

DedupJourneys == {MkStr(s) : s \in StrsUpTo(MaxLen)} \cup {NaN}
DedupRows == {[user_id |-> 1, session_id |-> 1, subscription_type |-> <<"F">>,
               user_journey |-> j] : j \in DedupJourneys}

InitDedup ==
    /\ df \in SeqsUpTo(DedupRows, MaxRowsD)
    /\ sessions = <<"A", "l", "l">>
    /\ count_from = <<"l", "a", "s", "t">>
    /\ pc = "start"
    /\ cleaned_df = <<>>
    /\ user_id = <<>>
    /\ err = "none"
    /\ subsets = <<>>
    /\ final_df = <<>>
    /\ raw_user_id = <<>>
    /\ raw_final = <<>>

\* cleaned_df = remove_page_duplicates(df)
Clean ==
    /\ pc = "start"
    /\ cleaned_df' = remove_page_duplicates(df)
    /\ pc' = "cleaned"
    /\ UNCHANGED <<df, sessions, count_from, user_id, err, subsets, final_df,
                   raw_user_id, raw_final>>

\* the Deduplicator applied to its own output
CleanAgain ==
    /\ pc = "cleaned"
    /\ final_df' = remove_page_duplicates(cleaned_df)
    /\ pc' = "recleaned"
    /\ UNCHANGED <<df, sessions, count_from, cleaned_df, user_id, err, subsets,
                   raw_user_id, raw_final>>

NextDedup == Clean \/ CleanAgain

SpecDedup == InitDedup /\ [][NextDedup]_vars

(***************************************************************************)
(* Inputs of the group_by specification.                                   *)
(***************************************************************************)
bogus == <<"b", "o", "g", "u", "s">>
middle == <<"m", "i", "d", "d", "l", "e">>
AB == <<"A", "-", "B">>
BC == <<"B", "-", "C">>

UserIds == {1, 2}
SessionIds == {2, 10}
\* subscription label and journey of a session
GroupCells == {<<<<"F">>, AB>>, <<<<"P">>, BC>>}
GroupRows == {[user_id |-> u, session_id |-> n, subscription_type |-> c[1],
               user_journey |-> MkStr(c[2])] :
                  u \in UserIds, n \in SessionIds, c \in GroupCells}
SessionsInputs == {All, bogus, <<"0">>, <<"1">>, <<"2">>}
CountFromInputs == {first, last, <<"L", "A", "S", "T">>, middle}

InitGroup ==
    /\ df \in SeqsUpTo(GroupRows, MaxRows)
    /\ sessions \in SessionsInputs
    /\ count_from \in CountFromInputs
    /\ pc = "start"
    /\ cleaned_df = <<>>
    /\ user_id = <<>>
    /\ err = "none"
    /\ subsets = <<>>
    /\ final_df = <<>>
    /\ raw_user_id = <<>>
    /\ raw_final = <<>>

\* user_id = group_by(df, sessions=sessions, count_from=count_from)
GroupBy ==
    /\ pc = "start"
    /\ LET r == group_by(df, sessions, count_from)
       IN  /\ user_id' = r.table
           /\ subsets' = r.subsets
           /\ err' = r.err
           /\ pc' = IF r.err = "none" THEN "grouped" ELSE "aborted"
    /\ UNCHANGED <<df, sessions, count_from, cleaned_df, final_df,
                   raw_user_id, raw_final>>

NextGroup == GroupBy

SpecGroup == InitGroup /\ [][NextGroup]_vars

(***************************************************************************)
(* The pipeline of the script: clean, group, clean again; then, on the     *)
(* same input, the pipeline without the first cleaning pass.               *)
(***************************************************************************)
PipeJourneys == {MkStr(AB), MkStr(<<"B", "-", "A">>), MkStr(<<"B", "-", "B">>),
                 MkStr(<<>>), NaN}
PipeRows == {[user_id |-> u, session_id |-> n, subscription_type |-> <<"F">>,
              user_journey |-> j] :
                 u \in UserIds, n \in {1, 2}, j \in PipeJourneys}
PipeSessionsInputs == {All, bogus, <<"0">>, <<"1">>}
PipeCountFromInputs == {first, last}

InitPipe ==
    /\ df \in SeqsUpTo(PipeRows, MaxRowsP)
    /\ sessions \in PipeSessionsInputs
    /\ count_from \in PipeCountFromInputs
    /\ pc = "start"
    /\ cleaned_df = <<>>
    /\ user_id = <<>>
    /\ err = "none"
    /\ subsets = <<>>
    /\ final_df = <<>>
    /\ raw_user_id = <<>>
    /\ raw_final = <<>>

\* user_id = group_by(cleaned_df, ...)
GroupCleaned ==
    /\ pc = "cleaned"
    /\ LET r == group_by(cleaned_df, sessions, count_from)
       IN  /\ user_id' = r.table
           /\ subsets' = r.subsets
           /\ err' = r.err
           /\ pc' = IF r.err = "none" THEN "grouped" ELSE "aborted"
    /\ UNCHANGED <<df, sessions, count_from, cleaned_df, final_df,
                   raw_user_id, raw_final>>

\* cleaned_df = remove_page_duplicates(user_id)
CleanGrouped ==
    /\ pc = "grouped"
    /\ final_df' = remove_page_duplicates(user_id)
    /\ pc' = "final"
    /\ UNCHANGED <<df, sessions, count_from, cleaned_df, user_id, err, subsets,
                   raw_user_id, raw_final>>

\* group_by(df, ...) on the table that was never cleaned
GroupRaw ==
    /\ pc = "final"
    /\ LET r == group_by(df, sessions, count_from)
       IN  /\ raw_user_id' = r.table
           /\ err' = r.err
           /\ pc' = IF r.err = "none" THEN "raw_grouped" ELSE "aborted"
    /\ UNCHANGED <<df, sessions, count_from, cleaned_df, user_id, subsets,
                   final_df, raw_final>>

\* remove_page_duplicates(group_by(df, ...))
CleanRaw ==
    /\ pc = "raw_grouped"
    /\ raw_final' = remove_page_duplicates(raw_user_id)
    /\ pc' = "done"
    /\ UNCHANGED <<df, sessions, count_from, cleaned_df, user_id, err, subsets,
                   final_df, raw_user_id>>

NextPipe == Clean \/ GroupCleaned \/ CleanGrouped \/ GroupRaw \/ CleanRaw

SpecPipe == InitPipe /\ [][NextPipe]_vars

(***************************************************************************)
(* What the claims speak of, stated on the input table df without the      *)
(* operators of the model.                                                 *)
(***************************************************************************)
NoAdjacentEqual(tokens) ==
    \A k \in 1..(Len(tokens) - 1) : tokens[k] # tokens[k + 1]

\* sessions is a non-negative count; Count is its value
NonNegCount == sessions \in {<<"0">>, <<"1">>, <<"2">>}
Count == CASE sessions = <<"0">> -> 0 [] sessions = <<"1">> -> 1
           [] sessions = <<"2">> -> 2 [] OTHER -> 0 - 1
FirstGiven == count_from = first
LastGiven == count_from \in {last, <<"L", "A", "S", "T">>}
ValidWindow == sessions = All \/ (NonNegCount /\ (FirstGiven \/ LastGiven))

AllStrings == \A i \in 1..Len(df) : IsStr(df[i].user_journey)
Keys == {df[i].user_id : i \in 1..Len(df)}
UserRows(key) == {i \in 1..Len(df) : df[i].user_id = key}
GroupSize(key) == Cardinality(UserRows(key))

\* row i of df comes before row j of the same user: by session id, ties in
\* input order
Before(i, j) ==
    \/ df[i].session_id < df[j].session_id
    \/ df[i].session_id = df[j].session_id /\ i < j
\* the rows of a user, as indices into df, in ascending session-id order
SortedRows(key) ==
    [r \in 1..GroupSize(key) |->
        CHOOSE i \in UserRows(key) :
            Cardinality({j \in UserRows(key) : Before(j, i)}) = r - 1]
\* the window of a user under a valid window setting
ExpectedWindow(key) ==
    LET s == SortedRows(key)
        n == Len(s)
        m == IF Count < n THEN Count ELSE n
    IN  IF sessions = All THEN s
        ELSE IF FirstGiven THEN SubSeq(s, 1, m)
        ELSE SubSeq(s, n - m + 1, n)

Flatten(seqs) ==
    LET F[k \in 0..Len(seqs)] == IF k = 0 THEN <<>> ELSE F[k-1] \o seqs[k]
    IN  F[Len(seqs)]
\* position of the first occurrence of x in s
FirstAt(s, x) == CHOOSE k \in 1..Len(s) : s[k] = x /\ \A j \in 1..(k-1) : s[j] # x

(***************************************************************************)
(* Claims about remove_page_duplicates (specification SpecDedup).          *)
(***************************************************************************)
\* C1: every string journey produced by remove_page_duplicates, split on '-',
\* has no two adjacent equal tokens, empty tokens included.
C1_NoAdjacentEqualTokens ==
    pc # "start" =>
        \A i \in 1..Len(df) :
            IsStr(df[i].user_journey) =>
                /\ IsStr(cleaned_df[i].user_journey)
                /\ NoAdjacentEqual(split(cleaned_df[i].user_journey.val))

\* a journey with two adjacent empty tokens has been cleaned
C1_Witness ==
    /\ pc = "cleaned"
    /\ \E i \in 1..Len(df) :
           /\ IsStr(df[i].user_journey)
           /\ \E k \in 1..(Len(df[i].user_journey.val) - 1) :
                  /\ df[i].user_journey.val[k] = "-"
                  /\ df[i].user_journey.val[k + 1] = "-"
                  /\ k + 1 = Len(df[i].user_journey.val)
           /\ cleaned_df[i] # df[i]

\* C2: remove_page_duplicates applied to its own output changes nothing, in
\* any row or column.
C2_Idempotent == pc = "recleaned" => final_df = cleaned_df

\* the first pass changed the table and the second pass has run
C2_Witness == pc = "recleaned" /\ cleaned_df # df /\ Len(df) > 0

FieldsOfWindow(g) ==
    LET w == ExpectedWindow(user_id[g].user_id)
    IN  /\ split(user_id[g].session_id) =
               [r \in 1..Len(w) |-> ToStr(df[w[r]].session_id)]
        /\ \A r \in 1..(Len(w) - 1) :
               df[w[r]].session_id <= df[w[r + 1]].session_id
        /\ IsStr(user_id[g].user_journey)
        /\ split(user_id[g].user_journey.val) =
               Flatten([r \in 1..Len(w) |-> split(df[w[r]].user_journey.val)])

InvalidSessions == sessions # All /\ ~NonNegCount

\* C6: group_by fails with ValueError (InvalidParameter) and returns no table
\* whenever sessions is neither 'All' nor a non-negative count, for any table.
C6_Claimed ==
    (pc # "start" /\ InvalidSessions) =>
        pc = "aborted" /\ err = "ValueError"

\* C7: with a count in sessions, group_by accepts count_from exactly when it is
\* 'first' or 'last' ignoring case and fails with ValueError otherwise, for any
\* table.
C7_Claimed ==
    (pc # "start" /\ NonNegCount) =>
        IF FirstGiven \/ LastGiven
        THEN pc = "grouped" /\ err = "none"
        ELSE pc = "aborted" /\ err = "ValueError"

\* the subscription values of the window of aggregate g
WindowSubs(g) ==
    LET w == ExpectedWindow(user_id[g].user_id)
    IN  [r \in 1..Len(w) |-> df[w[r]].subscription_type]

\* the subscription_type field of aggregate g lists the distinct values of its
\* window once each, in order of first occurrence, and nothing else
SubsOfWindow(g) ==
    LET subs == WindowSubs(g)
        listed == split(user_id[g].subscription_type)
    IN  /\ \A k \in 1..Len(listed) : \E r \in 1..Len(subs) : subs[r] = listed[k]
        /\ \A r \in 1..Len(subs) :
               Cardinality({k \in 1..Len(listed) : listed[k] = subs[r]}) = 1
        /\ \A k \in 1..(Len(listed) - 1) :
               FirstAt(subs, listed[k]) < FirstAt(subs, listed[k + 1])

C8_Claimed ==
    ValidWindow =>
        /\ pc # "aborted"
        /\ pc = "cleaned" =>
               \A i \in 1..Len(df) :
                   ~IsStr(df[i].user_journey) => cleaned_df[i] = df[i]
        /\ (pc = "grouped" /\ df = <<>>) => user_id = <<>>
        /\ (pc = "grouped" /\ Len(df) = 1 /\ sessions = All) =>
               /\ Len(user_id) = 1
               /\ user_id[1].user_journey = cleaned_df[1].user_journey
               /\ user_id[1].session_id = ToStr(cleaned_df[1].session_id)
               /\ user_id[1].subscription_type = cleaned_df[1].subscription_type

====
